---- MODULE Spec2Model ----
(***************************************************************************)
(* Box-tree construction of the MP4 muxer (src/src/box.ts).                *)
(*                                                                         *)
(* Every builder of box.ts is an operator of the same name.  A Box is the  *)
(* record [isBox, type, contents, children]; contents and children are     *)
(* optional fields, written Some(x) / None.  A falsy value returned in     *)
(* place of a box (null, undefined) is the record Falsy.                   *)
(*                                                                         *)
(* Numbers.  TLC's integers are 32 bits wide, so a chunk offset (a double  *)
(* that may exceed 2^32) is a wide number [hi, lo1, lo0] standing for      *)
(* hi * 2^32 + lo1 * 2^16 + lo0.  All other numbers are TLC integers.      *)
(* Sample times are seconds in the source; here they are integer           *)
(* microseconds, and intoTimescale divides by 10^6.                        *)
(***************************************************************************)
EXTENDS Integers, Sequences, FiniteSets, TLC

VARIABLES tracks, creationTime, called, arg, result, memo

vars == <<tracks, creationTime, called, arg, result, memo>>

(***************************************************************************)
(* Bounds of the model.                                                    *)
(***************************************************************************)
MaxChunks == 3
MaxSamples == 3
MaxTableLen == 2
MaxTracks == 3
MaxTrackId == 3
MaxPrivLen == 226
MaxGrowChunks == 4
MaxMovieTracks == 2

(***************************************************************************)
(* Optional values and sequence helpers.                                   *)
(***************************************************************************)
Some(x) == [present |-> TRUE, val |-> x]

None == [present |-> FALSE, val |-> <<>>]

RECURSIVE Flat(_)
\* Array.prototype.flat over a sequence of byte sequences.
Flat(parts) == IF parts = <<>> THEN <<>> ELSE Head(parts) \o Flat(Tail(parts))

Map(f(_), s) == [i \in 1..Len(s) |-> f(s[i])]

Fill(n, v) == [i \in 1..n |-> v]

RECURSIVE MaxOf(_, _)
\* Math.max(first, ...rest)
MaxOf(first, rest) ==
    IF rest = <<>> THEN first
    ELSE MaxOf(IF Head(rest) > first THEN Head(rest) ELSE first, Tail(rest))

(***************************************************************************)
(* Wide numbers (chunk offsets).                                           *)
(***************************************************************************)
Wide(hi, lo1, lo0) == [hi |-> hi, lo1 |-> lo1, lo0 |-> lo0]

\* value >= 2**32
AtLeastTwoPow32(w) == w.hi >= 1

\* value > 2**32
AboveTwoPow32(w) == w.hi > 1 \/ (w.hi = 1 /\ (w.lo1 > 0 \/ w.lo0 > 0))

WideLess(a, b) ==
    \/ a.hi < b.hi
    \/ a.hi = b.hi /\ a.lo1 < b.lo1
    \/ a.hi = b.hi /\ a.lo1 = b.lo1 /\ a.lo0 < b.lo0

(***************************************************************************)
(* Byte primitives of ./misc (fixed-width big-endian encoders).            *)
(***************************************************************************)
u8(value) == <<value % 256>>

u16(value) == <<(value \div 256) % 256, value % 256>>

i16(value) == <<(value \div 256) % 256, value % 256>>

u24(value) == <<(value \div 65536) % 256, (value \div 256) % 256, value % 256>>

u32(value) ==
    <<(value \div 16777216) % 256, (value \div 65536) % 256,
      (value \div 256) % 256, value % 256>>

\* u32 of a wide number: its low 32 bits.
u32Wide(w) == u16(w.lo1) \o u16(w.lo0)

\* u64: the high word floor(value / 2^32), then the low 32 bits.
u64(w) == u32(w.hi) \o u32Wide(w)

\* 16.16 and 8.8 fixed point of an integral value, 2.30 of -1, 0 or 1.
fixed_16_16(value) == u16(value) \o u16(0)

fixed_8_8(value) == <<value % 256, 0>>

fixed_2_30(value) == <<(value * 64) % 256, 0, 0, 0>>

\* The character codes of the tags the builders write.
ascii(text) ==
    CASE text = "isom" -> <<105, 115, 111, 109>>
      [] text = "iso4" -> <<105, 115, 111, 52>>
      [] text = "hvc1" -> <<104, 118, 99, 49>>
      [] text = "avc1" -> <<97, 118, 99, 49>>
      [] text = "mp41" -> <<109, 112, 52, 49>>
      [] text = "mhlr" -> <<109, 104, 108, 114>>
      [] text = "vide" -> <<118, 105, 100, 101>>
      [] text = "soun" -> <<115, 111, 117, 110>>
      [] text = "mp4-muxer-hdlr" ->
            <<109, 112, 52, 45, 109, 117, 120, 101, 114, 45, 104, 100, 108, 114>>

\* last(arr): the final element (callers guard the empty case).
last(arr) == arr[Len(arr)]

GLOBAL_TIMESCALE == 1000

\* Math.round(timeInSeconds * timescale), the time given in microseconds.
intoTimescale(timeInMicros, timescale) ==
    (2 * timeInMicros * timescale + 1000000) \div 2000000

IDENTITY_MATRIX == <<1, 0, 0, 0, 1, 0, 0, 0, 1>>

\* [cos, sin, 0, -sin, cos, 0, 0, 0, 1] for the four right angles.
rotationMatrix(rotationInDegrees) ==
    CASE rotationInDegrees = 0 -> <<1, 0, 0, 0, 1, 0, 0, 0, 1>>
      [] rotationInDegrees = 90 -> <<0, 1, 0, -1, 0, 0, 0, 0, 1>>
      [] rotationInDegrees = 180 -> <<-1, 0, 0, 0, -1, 0, 0, 0, 1>>
      [] rotationInDegrees = 270 -> <<0, -1, 0, 1, 0, 0, 0, 0, 1>>

matrixToBytes(matrix) ==
    Flat(<<fixed_16_16(matrix[1]), fixed_16_16(matrix[2]), fixed_2_30(matrix[3]),
           fixed_16_16(matrix[4]), fixed_16_16(matrix[5]), fixed_2_30(matrix[6]),
           fixed_16_16(matrix[7]), fixed_16_16(matrix[8]), fixed_2_30(matrix[9])>>)

(***************************************************************************)
(* Envelope builder.                                                       *)
(***************************************************************************)
\* A falsy value standing where a box is expected (null / undefined).
Falsy == [isBox |-> FALSE, type |-> "", contents |-> None, children |-> None]

\* new Uint8Array(numbers): every element is reduced modulo 256.
ToUint8Array(numbers) == [i \in 1..Len(numbers) |-> numbers[i] % 256]

\* contents: an optional sequence of byte groups; children: an optional
\* sequence of boxes.
box(type, contents, children) ==
    [isBox |-> TRUE,
     type |-> type,
     contents |-> IF contents.present
                  THEN Some(ToUint8Array(Flat(contents.val)))
                  ELSE None,
     children |-> children]

fullBox(type, version, flags, contents, children) ==
    box(type,
        Some(<<u8(version), u24(flags),
               IF contents.present THEN Flat(contents.val) ELSE <<>> >>),
        children)

(***************************************************************************)
(* Chunk Offset Box.                                                       *)
(***************************************************************************)
stco_gt(track) ==
    IF Len(track.finalizedChunks) > 0
         /\ AboveTwoPow32(last(track.finalizedChunks).offset)
    THEN fullBox("co64", 0, 0,
            Some(<<u32(Len(track.finalizedChunks)),
                   Flat(Map(LAMBDA x : u64(x.offset), track.finalizedChunks))>>),
            None)
    ELSE fullBox("stco", 0, 0,
            Some(<<u32(Len(track.finalizedChunks)),
                   Flat(Map(LAMBDA x : u32Wide(x.offset), track.finalizedChunks))>>),
            None)

stco_drop_first(track) ==
    LET rest == IF Len(track.finalizedChunks) > 0
                THEN Tail(track.finalizedChunks) ELSE <<>>
    IN IF Len(track.finalizedChunks) > 0
            /\ AtLeastTwoPow32(last(track.finalizedChunks).offset)
       THEN fullBox("co64", 0, 0,
               Some(<<u32(Len(rest)), Flat(Map(LAMBDA x : u64(x.offset), rest))>>),
               None)
       ELSE fullBox("stco", 0, 0,
               Some(<<u32(Len(rest)), Flat(Map(LAMBDA x : u32Wide(x.offset), rest))>>),
               None)

stco(track) ==
    IF Len(track.finalizedChunks) > 0
         /\ AtLeastTwoPow32(last(track.finalizedChunks).offset)
    THEN fullBox("co64", 0, 0,
            Some(<<u32(Len(track.finalizedChunks)),
                   Flat(Map(LAMBDA x : u64(x.offset), track.finalizedChunks))>>),
            None)
    ELSE fullBox("stco", 0, 0,
            Some(<<u32(Len(track.finalizedChunks)),
                   Flat(Map(LAMBDA x : u32Wide(x.offset), track.finalizedChunks))>>),
            None)

(***************************************************************************)
(* Sample table boxes.                                                     *)
(***************************************************************************)
stts_swapped(track) ==
    fullBox("stts", 0, 0,
        Some(<<u32(Len(track.timeToSampleTable)),
               Flat(Map(LAMBDA x : Flat(<<u32(x.sampleDelta), u32(x.sampleCount)>>),
                        track.timeToSampleTable))>>),
        None)

stts(track) ==
    fullBox("stts", 0, 0,
        Some(<<u32(Len(track.timeToSampleTable)),
               Flat(Map(LAMBDA x : Flat(<<u32(x.sampleCount), u32(x.sampleDelta)>>),
                        track.timeToSampleTable))>>),
        None)

\* The indices (0-based, as Array.prototype.entries gives them) of the
\* samples of type 'key', ascending.
KeySampleIndices(samples) ==
    LET RECURSIVE from(_)
        from(i) == IF i > Len(samples) THEN <<>>
                   ELSE IF samples[i].type = "key" THEN <<i - 1>> \o from(i + 1)
                   ELSE from(i + 1)
    IN from(1)

stss_zero_based(track) ==
    IF \A i \in 1..Len(track.samples) : track.samples[i].type = "key"
    THEN Falsy
    ELSE LET keySamples == KeySampleIndices(track.samples)
         IN fullBox("stss", 0, 0,
                Some(<<u32(Len(keySamples)),
                       Flat(Map(LAMBDA index : u32(index), keySamples))>>),
                None)

stss_always(track) ==
    LET keySamples == KeySampleIndices(track.samples)
    IN fullBox("stss", 0, 0,
           Some(<<u32(Len(keySamples)),
                  Flat(Map(LAMBDA index : u32(index + 1), keySamples))>>),
           None)

stss(track) ==
    IF \A i \in 1..Len(track.samples) : track.samples[i].type = "key"
    THEN Falsy
    ELSE LET keySamples == KeySampleIndices(track.samples)
         IN fullBox("stss", 0, 0,
                Some(<<u32(Len(keySamples)),
                       Flat(Map(LAMBDA index : u32(index + 1), keySamples))>>),
                None)

stsc(track) ==
    fullBox("stsc", 0, 0,
        Some(<<u32(Len(track.compactlyCodedChunkTable)),
               Flat(Map(LAMBDA x : Flat(<<u32(x.firstChunk), u32(x.samplesPerChunk),
                                          u32(1)>>),
                        track.compactlyCodedChunkTable))>>),
        None)

stsz(track) ==
    fullBox("stsz", 0, 0,
        Some(<<u32(0),
               u32(Len(track.samples)),
               Flat(Map(LAMBDA x : u32(x.size), track.samples))>>),
        None)

(***************************************************************************)
(* Codec configuration boxes.                                              *)
(***************************************************************************)
avcC_empty(track) ==
    IF track.codecPrivate.present
    THEN box("avcC", Some(<<track.codecPrivate.val>>), None)
    ELSE box("avcC", Some(<<>>), None)

\* track.codecPrivate && box(...): the falsy codecPrivate itself when absent.
avcC(track) ==
    IF track.codecPrivate.present
    THEN box("avcC", Some(<<track.codecPrivate.val>>), None)
    ELSE Falsy

hvcC(track) ==
    IF track.codecPrivate.present
    THEN box("hvcC", Some(<<track.codecPrivate.val>>), None)
    ELSE Falsy

vpcC(track) ==
    IF track.codecPrivate.present
    THEN box("vpcC", Some(<<track.codecPrivate.val>>), None)
    ELSE Falsy

av1C(track) ==
    IF track.codecPrivate.present
    THEN box("av1C", Some(<<track.codecPrivate.val>>), None)
    ELSE Falsy

\* 0x03808080 etc. exceed TLC's integers: the tag words are given by bytes.
DescriptorTag(tag) == <<tag, 128, 128, 128>>

esds(track) ==
    fullBox("esds", 0, 0,
        Some(<<DescriptorTag(3),
               u8(32 + Len(track.codecPrivate.val)),
               u16(1),
               u8(0),
               DescriptorTag(4),
               u8(18 + Len(track.codecPrivate.val)),
               u8(64),
               u8(21),
               u24(0),
               u32(130071),
               u32(130071),
               DescriptorTag(5),
               u8(Len(track.codecPrivate.val)),
               track.codecPrivate.val,
               DescriptorTag(6),
               u8(1),
               u8(2)>>),
        None)

dOps(track) ==
    box("dOps",
        Some(<<u8(0),
               u8(track.info.numberOfChannels),
               u16(3840),
               u32(track.info.sampleRate),
               fixed_8_8(0),
               u8(0)>>),
        None)

VIDEO_CODEC_TO_BOX_NAME(codec) ==
    CASE codec = "avc" -> "avc1"
      [] codec = "hevc" -> "hvc1"
      [] codec = "vp9" -> "vp09"
      [] codec = "av1" -> "av01"

VIDEO_CODEC_TO_CONFIGURATION_BOX(codec, track) ==
    CASE codec = "avc" -> avcC(track)
      [] codec = "hevc" -> hvcC(track)
      [] codec = "vp9" -> vpcC(track)
      [] codec = "av1" -> av1C(track)

AUDIO_CODEC_TO_BOX_NAME(codec) ==
    CASE codec = "aac" -> "mp4a"
      [] codec = "opus" -> "Opus"

AUDIO_CODEC_TO_CONFIGURATION_BOX(codec, track) ==
    CASE codec = "aac" -> esds(track)
      [] codec = "opus" -> dOps(track)

videoSampleDescription(compressionType, track) ==
    box(compressionType,
        Some(<<Fill(6, 0),
               u16(1),
               u16(0),
               u16(0),
               Fill(12, 0),
               u16(track.info.width),
               u16(track.info.height),
               <<0, 72, 0, 0>>,
               <<0, 72, 0, 0>>,
               u32(0),
               u16(1),
               Fill(32, 0),
               u16(24),
               i16(65535)>>),
        Some(<<VIDEO_CODEC_TO_CONFIGURATION_BOX(track.info.codec, track)>>))

soundSampleDescription(compressionType, track) ==
    box(compressionType,
        Some(<<Fill(6, 0),
               u16(1),
               u16(0),
               u16(0),
               u32(0),
               u16(track.info.numberOfChannels),
               u16(16),
               u16(0),
               u16(0),
               fixed_16_16(track.info.sampleRate)>>),
        Some(<<AUDIO_CODEC_TO_CONFIGURATION_BOX(track.info.codec, track)>>))

stsd(track) ==
    fullBox("stsd", 0, 0,
        Some(<<u32(1)>>),
        Some(<<IF track.info.type = "video"
               THEN videoSampleDescription(
                        VIDEO_CODEC_TO_BOX_NAME(track.info.codec), track)
               ELSE soundSampleDescription(
                        AUDIO_CODEC_TO_BOX_NAME(track.info.codec), track)>>))

stbl(track) ==
    box("stbl", None,
        Some(<<stsd(track), stts(track), stss(track), stsc(track), stsz(track),
               stco(track)>>))

(***************************************************************************)
(* Movie and track metadata boxes.                                         *)
(***************************************************************************)
\* last(x.samples).timestamp + last(x.samples).duration
EndOfLastSample(track) ==
    last(track.samples).timestamp + last(track.samples).duration

mvhd_no_duration(creationTimeArg, trackList) ==
    LET withSamples == SelectSeq(trackList, LAMBDA x : Len(x.samples) > 0)
        duration == intoTimescale(
            MaxOf(0, Map(LAMBDA x : last(x.samples).timestamp, withSamples)),
            GLOBAL_TIMESCALE)
        ids == Map(LAMBDA x : x.id, trackList)
    IN fullBox("mvhd", 0, 0,
           Some(<<u32(creationTimeArg),
                  u32(creationTimeArg),
                  u32(GLOBAL_TIMESCALE),
                  u32(duration),
                  fixed_16_16(1),
                  fixed_8_8(1),
                  Fill(10, 0),
                  matrixToBytes(IDENTITY_MATRIX),
                  Fill(24, 0),
                  IF ids = <<>> THEN u32(0)
                  ELSE u32(MaxOf(Head(ids), Tail(ids)) + 1)>>),
           None)

mvhd_last_id(creationTimeArg, trackList) ==
    LET withSamples == SelectSeq(trackList, LAMBDA x : Len(x.samples) > 0)
        duration == intoTimescale(
            MaxOf(0, Map(EndOfLastSample, withSamples)), GLOBAL_TIMESCALE)
        ids == Map(LAMBDA x : x.id, trackList)
    IN fullBox("mvhd", 0, 0,
           Some(<<u32(creationTimeArg),
                  u32(creationTimeArg),
                  u32(GLOBAL_TIMESCALE),
                  u32(duration),
                  fixed_16_16(1),
                  fixed_8_8(1),
                  Fill(10, 0),
                  matrixToBytes(IDENTITY_MATRIX),
                  Fill(24, 0),
                  IF ids = <<>> THEN u32(0)
                  ELSE u32(last(ids) + 1)>>),
           None)

\* Math.max() of no ids is -Infinity, which u32 writes as 0.
mvhd(creationTimeArg, trackList) ==
    LET withSamples == SelectSeq(trackList, LAMBDA x : Len(x.samples) > 0)
        duration == intoTimescale(
            MaxOf(0, Map(EndOfLastSample, withSamples)), GLOBAL_TIMESCALE)
        ids == Map(LAMBDA x : x.id, trackList)
    IN fullBox("mvhd", 0, 0,
           Some(<<u32(creationTimeArg),
                  u32(creationTimeArg),
                  u32(GLOBAL_TIMESCALE),
                  u32(duration),
                  fixed_16_16(1),
                  fixed_8_8(1),
                  Fill(10, 0),
                  matrixToBytes(IDENTITY_MATRIX),
                  Fill(24, 0),
                  IF ids = <<>> THEN u32(0)
                  ELSE u32(MaxOf(Head(ids), Tail(ids)) + 1)>>),
           None)

tkhd(track, creationTimeArg) ==
    LET durationInGlobalTimescale == intoTimescale(
            IF Len(track.samples) > 0 THEN EndOfLastSample(track) ELSE 0,
            GLOBAL_TIMESCALE)
    IN fullBox("tkhd", 0, 3,
           Some(<<u32(creationTimeArg),
                  u32(creationTimeArg),
                  u32(track.id),
                  u32(0),
                  u32(durationInGlobalTimescale),
                  Fill(8, 0),
                  u16(0),
                  u16(0),
                  fixed_8_8(IF track.info.type = "audio" THEN 1 ELSE 0),
                  u16(0),
                  matrixToBytes(rotationMatrix(
                      IF track.info.type = "video" THEN track.info.rotation ELSE 0)),
                  fixed_16_16(IF track.info.type = "video" THEN track.info.width ELSE 0),
                  fixed_16_16(IF track.info.type = "video" THEN track.info.height ELSE 0)>>),
           None)

mdhd(track, creationTimeArg) ==
    LET localDuration == intoTimescale(
            IF Len(track.samples) > 0 THEN EndOfLastSample(track) ELSE 0,
            track.timescale)
    IN fullBox("mdhd", 0, 0,
           Some(<<u32(creationTimeArg),
                  u32(creationTimeArg),
                  u32(track.timescale),
                  u32(localDuration),
                  u16(21956),
                  u16(0)>>),
           None)

hdlr(componentSubtype) ==
    fullBox("hdlr", 0, 0,
        Some(<<ascii("mhlr"),
               ascii(componentSubtype),
               u32(0),
               u32(0),
               u32(0),
               ascii("mp4-muxer-hdlr")>>),
        None)

vmhd == fullBox("vmhd", 0, 1, Some(<<u16(0), u16(0), u16(0), u16(0)>>), None)

smhd == fullBox("smhd", 0, 0, Some(<<u16(0), u16(0)>>), None)

url == fullBox("url ", 0, 1, None, None)

dref == fullBox("dref", 0, 0, Some(<<u32(1)>>), Some(<<url>>))

dinf == box("dinf", None, Some(<<dref>>))

minf(track) ==
    box("minf", None,
        Some(<<IF track.info.type = "video" THEN vmhd ELSE smhd,
               dinf,
               stbl(track)>>))

mdia(track, creationTimeArg) ==
    box("mdia", None,
        Some(<<mdhd(track, creationTimeArg),
               hdlr(IF track.info.type = "video" THEN "vide" ELSE "soun"),
               minf(track)>>))

trak(track, creationTimeArg) ==
    box("trak", None,
        Some(<<tkhd(track, creationTimeArg), mdia(track, creationTimeArg)>>))

moov(trackList, creationTimeArg) ==
    box("moov", None,
        Some(<<mvhd(creationTimeArg, trackList)>>
             \o Map(LAMBDA x : trak(x, creationTimeArg), trackList)))

(***************************************************************************)
(* Track snapshots handed to the builders by the muxer.                    *)
(***************************************************************************)
SeqsUpTo(S, n) == UNION {[1..k -> S] : k \in 0..n}

VideoInfo(codec) ==
    [type |-> "video", codec |-> codec, width |-> 640, height |-> 360,
     rotation |-> 90, numberOfChannels |-> 0, sampleRate |-> 0]

AudioInfo(codec) ==
    [type |-> "audio", codec |-> codec, width |-> 0, height |-> 0,
     rotation |-> 0, numberOfChannels |-> 2, sampleRate |-> 48000]

Sample(timestamp, duration, size, type) ==
    [timestamp |-> timestamp, duration |-> duration, size |-> size, type |-> type]

\* A video track with no samples, no chunks and no codec private data.
EmptyTrack ==
    [id |-> 1,
     timescale |-> 30000,
     samples |-> <<>>,
     timeToSampleTable |-> <<>>,
     compactlyCodedChunkTable |-> <<>>,
     finalizedChunks |-> <<>>,
     codecPrivate |-> None,
     info |-> VideoInfo("avc")]

\* 0, 5, 2^32 - 1, 2^32, 2^32 + 1, 3 * 2^32 + 7
ChunkOffsets ==
    {Wide(0, 0, 0), Wide(0, 0, 5), Wide(0, 65535, 65535),
     Wide(1, 0, 0), Wide(1, 0, 1), Wide(3, 0, 7)}

Chunk(offset) == [offset |-> offset]

(***************************************************************************)
(* Invocations of the builders.                                            *)
(***************************************************************************)
Call(name, index, built) ==
    /\ called' = name
    /\ arg' = index
    /\ result' = built
    /\ UNCHANGED <<tracks, creationTime, memo>>

CallStco == \E i \in 1..Len(tracks) : Call("stco", i, stco(tracks[i]))

\* The muxer finalizes one more chunk of a track, written after (at a
\* greater offset than) the chunks already finalized.
FinalizeChunk ==
    \E i \in 1..Len(tracks), offset \in ChunkOffsets :
        /\ Len(tracks[i].finalizedChunks) < MaxGrowChunks
        /\ \A k \in 1..Len(tracks[i].finalizedChunks) :
               WideLess(tracks[i].finalizedChunks[k].offset, offset)
        /\ tracks' = [tracks EXCEPT ![i].finalizedChunks = Append(@, Chunk(offset))]
        /\ UNCHANGED <<creationTime, called, arg, result, memo>>

(***************************************************************************)
(* stco over arbitrary chunk lists.                                        *)
(***************************************************************************)
InitStco ==
    /\ \E offsets \in SeqsUpTo(ChunkOffsets, MaxChunks) :
           tracks = <<[EmptyTrack EXCEPT
                          !.finalizedChunks = Map(Chunk, offsets)]>>
    /\ creationTime = 0
    /\ called = "none"
    /\ arg = 0
    /\ result = Falsy
    /\ memo = {}

NextStco == CallStco

SpecStco == InitStco /\ [][NextStco]_vars

(***************************************************************************)
(* stco over the successive snapshots of a track whose chunk list grows.   *)
(***************************************************************************)
InitGrow ==
    /\ tracks = <<EmptyTrack>>
    /\ creationTime = 0
    /\ called = "none"
    /\ arg = 0
    /\ result = Falsy
    /\ memo = {}

NextGrow == FinalizeChunk \/ CallStco

SpecGrow == InitGrow /\ [][NextGrow]_vars

(***************************************************************************)
(* Reading a built box back.                                               *)
(***************************************************************************)
\* The big-endian value of the 2 / 4 bytes at pos (-1 when the 32-bit value
\* does not fit a TLC integer).
Decode16(bytes, pos) == bytes[pos] * 256 + bytes[pos + 1]

Decode32(bytes, pos) ==
    IF bytes[pos] >= 128 THEN -1
    ELSE ((bytes[pos] * 256 + bytes[pos + 1]) * 256 + bytes[pos + 2]) * 256
             + bytes[pos + 3]

Decode64(bytes, pos) ==
    Wide(Decode32(bytes, pos), Decode16(bytes, pos + 4), Decode16(bytes, pos + 6))

IsFullBox(b, type) ==
    /\ b.isBox
    /\ b.type = type
    /\ b.contents.present
    /\ Len(b.contents.val) >= 4
    /\ SubSeq(b.contents.val, 1, 4) = <<0, 0, 0, 0>>

\* The entry count of a table box: the 32-bit word after version and flags.
EntryCount(b) == Decode32(b.contents.val, 5)

IsByte(x) == x \in 0..255

Chunks == tracks[arg].finalizedChunks

NonDecreasingOffsets ==
    \A i \in 1..Len(Chunks) - 1 :
        ~WideLess(Chunks[i + 1].offset, Chunks[i].offset)

\* The table holds 32-bit entries only: the low words of the offsets.
Has32BitEntries(b) ==
    /\ Len(b.contents.val) = 8 + 4 * Len(Chunks)
    /\ \A i \in 1..Len(Chunks) :
           /\ Decode16(b.contents.val, 5 + 4 * i) = Chunks[i].offset.lo1
           /\ Decode16(b.contents.val, 7 + 4 * i) = Chunks[i].offset.lo0

\* The table holds 64-bit entries only: the offsets in full.
Has64BitEntries(b) ==
    /\ Len(b.contents.val) = 8 + 8 * Len(Chunks)
    /\ \A i \in 1..Len(Chunks) :
           Decode64(b.contents.val, 1 + 8 * i) = Chunks[i].offset

\* C1 as amended: the box is 'co64' with 64-bit entries throughout when the
\* LAST finalized chunk's offset is >= 2^32, and 'stco' with 32-bit entries
\* throughout otherwise (no chunks, or last offset < 2^32); the entry count
\* is finalizedChunks.length; when the offsets are non-decreasing no offset
\* >= 2^32 is written into a 32-bit entry.
StcoWidthByLastChunk ==
    called = "stco" =>
        LET wide == Len(Chunks) > 0 /\ AtLeastTwoPow32(last(Chunks).offset)
        IN /\ IsFullBox(result, IF wide THEN "co64" ELSE "stco")
           /\ ~result.children.present
           /\ \A k \in 1..Len(result.contents.val) : IsByte(result.contents.val[k])
           /\ EntryCount(result) = Len(Chunks)
           /\ wide => Has64BitEntries(result)
           /\ ~wide => Has32BitEntries(result)
           /\ (~wide /\ NonDecreasingOffsets) =>
                  \A i \in 1..Len(Chunks) : ~AtLeastTwoPow32(Chunks[i].offset)

StcoWidthWitness ==
    /\ called = "stco"
    /\ result.type = "co64"
    /\ Len(Chunks) >= 2
    /\ ~AtLeastTwoPow32(Chunks[1].offset)

\* C1 as stated: the width follows the MAXIMUM offset, and no offset >= 2^32
\* is written into a 32-bit entry.
StcoWidthByMaxOffset ==
    called = "stco" =>
        LET wide == \E i \in 1..Len(Chunks) : AtLeastTwoPow32(Chunks[i].offset)
        IN /\ IsFullBox(result, IF wide THEN "co64" ELSE "stco")
           /\ EntryCount(result) = Len(Chunks)
           /\ wide => Has64BitEntries(result)
           /\ ~wide => Has32BitEntries(result)
           /\ result.type = "stco" =>
                  \A i \in 1..Len(Chunks) : ~AtLeastTwoPow32(Chunks[i].offset)

\* C10: over the successive snapshots of a track whose chunk list grows by
\* appending chunks at ever greater offsets, every stco invocation emits an
\* entry count equal to the number of chunks finalized at that moment, the
\* emitted count never decreases from one invocation to the next, and after
\* a 'co64' every later invocation emits 'co64' again.
StcoGrowsMonotonically ==
    [][/\ (called' = "stco" /\ tracks' = tracks) =>
              EntryCount(result') = Len(tracks'[arg'].finalizedChunks)
       /\ (called = "stco" /\ called' = "stco") =>
              /\ EntryCount(result') >= EntryCount(result)
              /\ result.type = "co64" => result'.type = "co64"]_vars

\* A 'co64' table was emitted for a chunk list that starts below 2^32, and
\* chunks were finalized since.
StcoGrowsWitness ==
    /\ called = "stco"
    /\ result.type = "co64"
    /\ EntryCount(result) >= 2
    /\ Len(Chunks) > EntryCount(result)
    /\ ~AtLeastTwoPow32(Chunks[1].offset)

(***************************************************************************)
(* The sample table over arbitrary sample lists.                           *)
(***************************************************************************)
SampleKinds == {"key", "delta"} \X {10, 300}

\* The track the muxer holds after writing the samples picked, each lasting
\* 1000 microseconds (30 ticks), in one chunk.
TrackOfSamples(picks) ==
    LET n == Len(picks)
    IN [EmptyTrack EXCEPT
           !.samples = [k \in 1..n |->
                           Sample((k - 1) * 1000, 1000, picks[k][2], picks[k][1])],
           !.timeToSampleTable =
               IF n = 0 THEN <<>> ELSE <<[sampleCount |-> n, sampleDelta |-> 30]>>,
           !.compactlyCodedChunkTable =
               IF n = 0 THEN <<>> ELSE <<[firstChunk |-> 1, samplesPerChunk |-> n]>>,
           !.finalizedChunks =
               IF n = 0 THEN <<>> ELSE <<Chunk(Wide(0, 0, 48))>>,
           !.codecPrivate = Some(<<1, 2, 3>>)]

CallStss == \E i \in 1..Len(tracks) : Call("stss", i, stss(tracks[i]))

CallStbl == \E i \in 1..Len(tracks) : Call("stbl", i, stbl(tracks[i]))

InitStss ==
    /\ \E picks \in SeqsUpTo(SampleKinds, MaxSamples) :
           tracks = <<TrackOfSamples(picks)>>
    /\ creationTime = 0
    /\ called = "none"
    /\ arg = 0
    /\ result = Falsy
    /\ memo = {}

NextStss == CallStss \/ CallStbl

SpecStss == InitStss /\ [][NextStss]_vars

Samples == tracks[arg].samples

AllKey == \A i \in 1..Len(Samples) : Samples[i].type = "key"

ChildTypes(b) == [i \in 1..Len(b.children.val) |-> b.children.val[i].type]

\* C2 as amended: for a track whose samples are all key frames (also one
\* with no samples) the children of stbl hold no 'stss' box; they are the
\* stsd, stts, stsc, stsz and stco/co64 boxes in this order, with a null
\* element (not a box) standing in the third place, where stss would be.
StblKeepsNullForStss ==
    (called = "stbl" /\ AllKey) =>
        /\ result.isBox /\ result.type = "stbl"
        /\ ~result.contents.present
        /\ result.children.present
        /\ ChildTypes(result) \in {<<"stsd", "stts", "", "stsc", "stsz", "stco">>,
                                   <<"stsd", "stts", "", "stsc", "stsz", "co64">>}
        /\ \A i \in 1..6 : result.children.val[i].isBox <=> i # 3
        /\ result.children.val[3] = Falsy

StblAllKeyWitness ==
    /\ called = "stbl"
    /\ AllKey
    /\ Len(Samples) >= 2

\* C2 as stated: the children are exactly the five boxes, nothing standing
\* in the place of stss.
StblOmitsStss ==
    (called = "stbl" /\ AllKey) =>
        /\ result.children.present
        /\ ChildTypes(result) \in {<<"stsd", "stts", "stsc", "stsz", "stco">>,
                                   <<"stsd", "stts", "stsc", "stsz", "co64">>}
        /\ \A i \in 1..Len(result.children.val) : result.children.val[i].isBox

KeyPositions == {i \in 1..Len(Samples) : Samples[i].type = "key"}

\* C3: for a track with a sample that is no key frame, stss is a full box
\* whose entry count is the number of key-frame samples and whose entries
\* are the 1-based positions of exactly those samples, strictly ascending.
StssListsKeySamples ==
    (called = "stss" /\ ~AllKey) =>
        LET entry(k) == Decode32(result.contents.val, 5 + 4 * k)
            count == EntryCount(result)
        IN /\ IsFullBox(result, "stss")
           /\ ~result.children.present
           /\ count = Cardinality(KeyPositions)
           /\ Len(result.contents.val) = 8 + 4 * count
           /\ \A k \in 1..Len(result.contents.val) : IsByte(result.contents.val[k])
           /\ {entry(k) : k \in 1..count} = KeyPositions
           /\ \A k \in 1..count - 1 : entry(k) < entry(k + 1)

StssWitness ==
    /\ called = "stss"
    /\ Len(Samples) = 3
    /\ Samples[1].type = "delta"
    /\ Samples[2].type = "key"
    /\ Samples[3].type = "key"
    /\ result.isBox
    /\ EntryCount(result) = 2

(***************************************************************************)
(* stts and stsc over arbitrary compaction tables.                         *)
(***************************************************************************)
TimeToSampleEntries ==
    {[sampleCount |-> c, sampleDelta |-> d] : c \in 1..2, d \in {1, 70000}}

ChunkTableEntries ==
    {[firstChunk |-> f, samplesPerChunk |-> n] : f \in {1, 2, 66000}, n \in 1..2}

\* The samples a time-to-sample table stands for, at 1000 ticks per second.
RECURSIVE SamplesOfTable(_, _)
SamplesOfTable(table, start) ==
    IF table = <<>> THEN <<>>
    ELSE LET e == Head(table)
             micros == e.sampleDelta * 1000
         IN [k \in 1..e.sampleCount |->
                Sample(start + (k - 1) * micros, micros, 100, "key")]
            \o SamplesOfTable(Tail(table), start + e.sampleCount * micros)

CallStts == \E i \in 1..Len(tracks) : Call("stts", i, stts(tracks[i]))

CallStsc == \E i \in 1..Len(tracks) : Call("stsc", i, stsc(tracks[i]))

InitTables ==
    /\ \E tts \in SeqsUpTo(TimeToSampleEntries, MaxTableLen),
          chunkTable \in SeqsUpTo(ChunkTableEntries, MaxTableLen) :
           /\ \A k \in 1..Len(chunkTable) - 1 :
                  chunkTable[k].firstChunk <= chunkTable[k + 1].firstChunk
           /\ tracks = <<[EmptyTrack EXCEPT
                             !.timescale = 1000,
                             !.samples = SamplesOfTable(tts, 0),
                             !.timeToSampleTable = tts,
                             !.compactlyCodedChunkTable = chunkTable]>>
    /\ creationTime = 0
    /\ called = "none"
    /\ arg = 0
    /\ result = Falsy
    /\ memo = {}

NextTables == CallStts \/ CallStsc

SpecTables == InitTables /\ [][NextTables]_vars

\* C8: stts writes timeToSampleTable.length as its entry count and then the
\* (sampleCount, sampleDelta) of every entry, in table order; stsc writes
\* compactlyCodedChunkTable.length and then (firstChunk, samplesPerChunk, 1)
\* for every entry, in table order; nothing else is written.
TablesAreVerbatim ==
    /\ called = "stts" =>
           LET table == tracks[arg].timeToSampleTable
               bytes == result.contents.val
           IN /\ IsFullBox(result, "stts")
              /\ ~result.children.present
              /\ EntryCount(result) = Len(table)
              /\ Len(bytes) = 8 + 8 * Len(table)
              /\ \A k \in 1..Len(bytes) : IsByte(bytes[k])
              /\ \A i \in 1..Len(table) :
                     /\ Decode32(bytes, 1 + 8 * i) = table[i].sampleCount
                     /\ Decode32(bytes, 5 + 8 * i) = table[i].sampleDelta
    /\ called = "stsc" =>
           LET table == tracks[arg].compactlyCodedChunkTable
               bytes == result.contents.val
           IN /\ IsFullBox(result, "stsc")
              /\ ~result.children.present
              /\ EntryCount(result) = Len(table)
              /\ Len(bytes) = 8 + 12 * Len(table)
              /\ \A k \in 1..Len(bytes) : IsByte(bytes[k])
              /\ \A i \in 1..Len(table) :
                     /\ Decode32(bytes, 12 * i - 3) = table[i].firstChunk
                     /\ Decode32(bytes, 12 * i + 1) = table[i].samplesPerChunk
                     /\ Decode32(bytes, 12 * i + 5) = 1

\* stsc has been built for a track whose two tables each hold two
\* different entries.
TablesWitness ==
    /\ called = "stsc"
    /\ Len(tracks[arg].compactlyCodedChunkTable) = 2
    /\ tracks[arg].compactlyCodedChunkTable[1].firstChunk = 1
    /\ tracks[arg].compactlyCodedChunkTable[2].firstChunk = 66000
    /\ Len(tracks[arg].timeToSampleTable) = 2
    /\ tracks[arg].timeToSampleTable[1].sampleDelta = 70000
    /\ tracks[arg].timeToSampleTable[2].sampleDelta = 1
    /\ EntryCount(result) = 2

(***************************************************************************)
(* mvhd over arbitrary track lists.                                        *)
(***************************************************************************)
\* Sample lists by where their last sample ends: none, at 1499 us (1.499
\* ticks of the global timescale), at 1500 us, at 40000 us, and one whose
\* last sample (ending at 300 us) is not the one that ends last.
SampleLists ==
    {<<>>,
     <<Sample(0, 1499, 100, "key")>>,
     <<Sample(0, 1000, 100, "key"), Sample(1000, 500, 50, "delta")>>,
     <<Sample(0, 40000, 100, "key")>>,
     <<Sample(5000, 100, 100, "key"), Sample(200, 100, 50, "delta")>>}

MovieTracks ==
    {[EmptyTrack EXCEPT !.id = id, !.samples = samples] :
        id \in 1..MaxTrackId, samples \in SampleLists}

CallMvhd ==
    /\ called' = "mvhd"
    /\ arg' = 0
    /\ result' = mvhd(creationTime, tracks)
    /\ UNCHANGED <<tracks, creationTime, memo>>

InitMvhd ==
    /\ tracks \in SeqsUpTo(MovieTracks, MaxTracks)
    /\ creationTime = 3600
    /\ called = "none"
    /\ arg = 0
    /\ result = Falsy
    /\ memo = {}

NextMvhd == CallMvhd

SpecMvhd == InitMvhd /\ [][NextMvhd]_vars

TrackIds == {tracks[i].id : i \in 1..Len(tracks)}

\* The nextTrackId field: the last 32-bit word of the 100 bytes of mvhd.
NextTrackIdField(b) == Decode32(b.contents.val, 97)

\* The duration field: the fifth 32-bit word of mvhd.
DurationField(b) == Decode32(b.contents.val, 17)

\* C4: for a non-empty track list, in any order and with colliding ids, the
\* nextTrackId written by mvhd is the greatest track id plus one, and so
\* exceeds every track id of the movie.
NextTrackIdIsMaxPlusOne ==
    (called = "mvhd" /\ Len(tracks) > 0) =>
        /\ IsFullBox(result, "mvhd")
        /\ Len(result.contents.val) = 100
        /\ \E m \in TrackIds :
               /\ \A id \in TrackIds : id <= m
               /\ NextTrackIdField(result) = m + 1
        /\ \A id \in TrackIds : NextTrackIdField(result) > id

\* Tracks with ids 1, 3, 2 in this order: nextTrackId is 4.
NextTrackIdWitness ==
    /\ called = "mvhd"
    /\ Len(tracks) = 3
    /\ <<tracks[1].id, tracks[2].id, tracks[3].id>> = <<1, 3, 2>>
    /\ NextTrackIdField(result) = 4

\* The ends of the last samples of the tracks that have samples, each
\* converted into the global timescale.
ConvertedEnds ==
    {intoTimescale(last(tracks[i].samples).timestamp
                       + last(tracks[i].samples).duration, GLOBAL_TIMESCALE) :
        i \in {k \in 1..Len(tracks) : Len(tracks[k].samples) > 0}}

\* C5: the duration written by mvhd is the greatest converted end of a last
\* sample over the tracks that have samples, and 0 when no track has any;
\* mvhd yields its box also when some or all tracks have no samples.
DurationIsMaxOfTrackEnds ==
    called = "mvhd" =>
        /\ IsFullBox(result, "mvhd")
        /\ Len(result.contents.val) = 100
        /\ Decode32(result.contents.val, 13) = GLOBAL_TIMESCALE
        /\ IF ConvertedEnds = {}
           THEN DurationField(result) = 0
           ELSE /\ DurationField(result) \in ConvertedEnds
                /\ \A e \in ConvertedEnds : e <= DurationField(result)

\* A track without samples comes first, the track ending at 1500 us -- 1.5
\* ticks, rounded to 2 -- gives the duration, and another ends earlier.
DurationWitness ==
    /\ called = "mvhd"
    /\ Len(tracks) = 3
    /\ tracks[1].samples = <<>>
    /\ ConvertedEnds = {1, 2}
    /\ DurationField(result) = 2

(***************************************************************************)
(* Sample descriptions over the codecs and their private data.             *)
(***************************************************************************)
VideoCodecs == {"avc", "hevc", "vp9", "av1"}

VideoPrivateData == {None, Some(<<>>), Some(<<1, 2, 3>>), Some(<<0, 255, 128, 7>>)}

\* Private data of the given length (the bytes count up from 1, modulo 256).
PrivateData(length) == Some([k \in 1..length |-> k % 256])

DescribedTracks ==
    {[EmptyTrack EXCEPT !.info = VideoInfo(codec), !.codecPrivate = private] :
        codec \in VideoCodecs, private \in VideoPrivateData}
    \cup {[EmptyTrack EXCEPT !.info = AudioInfo("aac"),
                             !.timescale = 48000,
                             !.codecPrivate = PrivateData(length)] :
             length \in 0..MaxPrivLen}
    \cup {[EmptyTrack EXCEPT !.info = AudioInfo("opus"), !.timescale = 48000]}

CallStsd == \E i \in 1..Len(tracks) : Call("stsd", i, stsd(tracks[i]))

\* esds reads codecPrivate.byteLength: it needs the private data.
CallEsds ==
    \E i \in 1..Len(tracks) :
        /\ tracks[i].codecPrivate.present
        /\ Call("esds", i, esds(tracks[i]))

InitStsd ==
    /\ \E track \in DescribedTracks : tracks = <<track>>
    /\ creationTime = 0
    /\ called = "none"
    /\ arg = 0
    /\ result = Falsy
    /\ memo = {}

NextStsd == CallStsd \/ CallEsds

SpecStsd == InitStsd /\ [][NextStsd]_vars

ConfigurationBoxName(codec) ==
    CASE codec = "avc" -> "avcC"
      [] codec = "hevc" -> "hvcC"
      [] codec = "vp9" -> "vpcC"
      [] codec = "av1" -> "av1C"

SampleEntryName(codec) ==
    CASE codec = "avc" -> "avc1"
      [] codec = "hevc" -> "hvc1"
      [] codec = "vp9" -> "vp09"
      [] codec = "av1" -> "av01"

\* The one sample description of an stsd box.
Description(b) == b.children.val[1]

\* C6 as amended: the sample description of a video track is named after
\* its codec and has exactly one child element: with codecPrivate present,
\* the configuration box of the codec, whose contents are the bytes of
\* codecPrivate and which has no children; with codecPrivate absent, a
\* falsy element that is no box (no configuration box and no empty box).
ConfigurationBoxOrFalsy ==
    (called = "stsd" /\ tracks[arg].info.type = "video") =>
        LET track == tracks[arg]
            description == Description(result)
        IN /\ IsFullBox(result, "stsd")
           /\ Len(result.children.val) = 1
           /\ description.isBox
           /\ description.type = SampleEntryName(track.info.codec)
           /\ description.children.present
           /\ Len(description.children.val) = 1
           /\ IF track.codecPrivate.present
              THEN /\ description.children.val[1].isBox
                   /\ description.children.val[1].type
                          = ConfigurationBoxName(track.info.codec)
                   /\ description.children.val[1].contents
                          = Some(track.codecPrivate.val)
                   /\ ~description.children.val[1].children.present
              ELSE description.children.val[1] = Falsy

\* An avc track without private data has been described.
ConfigurationAbsentWitness ==
    /\ called = "stsd"
    /\ tracks[arg].info.codec = "avc"
    /\ ~tracks[arg].codecPrivate.present
    /\ Description(result).type = "avc1"

\* C6 as stated: without codecPrivate the children hold nothing at all.
ConfigurationBoxOrNothing ==
    (called = "stsd" /\ tracks[arg].info.type = "video") =>
        LET track == tracks[arg]
            description == Description(result)
        IN /\ description.isBox
           /\ description.type = SampleEntryName(track.info.codec)
           /\ IF track.codecPrivate.present
              THEN /\ Len(description.children.val) = 1
                   /\ description.children.val[1].isBox
                   /\ description.children.val[1].type
                          = ConfigurationBoxName(track.info.codec)
                   /\ description.children.val[1].contents
                          = Some(track.codecPrivate.val)
              ELSE \/ ~description.children.present
                   \/ description.children.val = <<>>

\* The length bytes of esds are right as long as 0x20 + L fits a byte.
EsdsLengthBytesBelowWrap ==
    (called = "esds" /\ Len(tracks[arg].codecPrivate.val) < 224) =>
        LET L == Len(tracks[arg].codecPrivate.val)
            bytes == result.contents.val
        IN /\ bytes[9] = 32 + L
           /\ bytes[17] = 18 + L
           /\ bytes[9] = Len(bytes) - 9
           /\ SubSeq(bytes, 36, 35 + L) = tracks[arg].codecPrivate.val

\* C7: with L bytes of codecPrivate, the byte esds writes as the length of
\* the object descriptor is 0x20 + L and the byte written as the length of
\* the ES descriptor is 0x12 + L, for every L; these are the number of
\* bytes after the first length byte to the end of the box, and the number
\* of bytes after the second one through the last byte of codecPrivate.
EsdsLengthBytes ==
    called = "esds" =>
        LET L == Len(tracks[arg].codecPrivate.val)
            bytes == result.contents.val
        IN /\ IsFullBox(result, "esds")
           /\ bytes[9] = 32 + L
           /\ bytes[17] = 18 + L
           /\ bytes[9] = Len(bytes) - 9
           /\ bytes[17] = (35 + L) - 17
           /\ SubSeq(bytes, 36, 35 + L) = tracks[arg].codecPrivate.val

(***************************************************************************)
(* moov and trak, invoked repeatedly on the tracks of a movie.             *)
(***************************************************************************)
MovieSnapshots ==
    {[EmptyTrack EXCEPT
         !.id = 1,
         !.samples = <<Sample(0, 1000, 300, "key"), Sample(1000, 1000, 10, "delta")>>,
         !.timeToSampleTable = <<[sampleCount |-> 2, sampleDelta |-> 30]>>,
         !.compactlyCodedChunkTable = <<[firstChunk |-> 1, samplesPerChunk |-> 2]>>,
         !.finalizedChunks = <<Chunk(Wide(0, 0, 48))>>,
         !.codecPrivate = Some(<<1, 100, 0, 31>>)],
     [EmptyTrack EXCEPT !.id = 1, !.info = VideoInfo("vp9")],
     [EmptyTrack EXCEPT
         !.id = 2,
         !.timescale = 48000,
         !.info = AudioInfo("aac"),
         !.samples = <<Sample(0, 10000, 20, "key"), Sample(10000, 10000, 21, "key")>>,
         !.timeToSampleTable = <<[sampleCount |-> 2, sampleDelta |-> 480]>>,
         !.compactlyCodedChunkTable = <<[firstChunk |-> 1, samplesPerChunk |-> 1]>>,
         !.finalizedChunks = <<Chunk(Wide(0, 0, 358)), Chunk(Wide(1, 0, 0))>>,
         !.codecPrivate = Some(<<17, 144>>)],
     [EmptyTrack EXCEPT
         !.id = 2,
         !.timescale = 48000,
         !.info = AudioInfo("opus"),
         !.samples = <<Sample(0, 20000, 80, "key")>>,
         !.timeToSampleTable = <<[sampleCount |-> 1, sampleDelta |-> 960]>>,
         !.compactlyCodedChunkTable = <<[firstChunk |-> 1, samplesPerChunk |-> 1]>>,
         !.finalizedChunks = <<Chunk(Wide(0, 0, 358))>>]}

\* The invocation recorded in memo: what was called, on what, and the tree.
Invocation(name, index, built) ==
    [op |-> name, index |-> index, input |-> <<tracks, creationTime>>, out |-> built]

\* As if last(x.samples) took the last sample off the list.
CallMoov_consuming ==
    /\ called' = "moov"
    /\ arg' = 0
    /\ result' = moov(tracks, creationTime)
    /\ memo' = memo \cup {Invocation("moov", 0, result')}
    /\ tracks' = [i \in 1..Len(tracks) |->
                     [tracks[i] EXCEPT !.samples =
                         IF @ = <<>> THEN @ ELSE SubSeq(@, 1, Len(@) - 1)]]
    /\ UNCHANGED creationTime

CallMoov ==
    /\ called' = "moov"
    /\ arg' = 0
    /\ result' = moov(tracks, creationTime)
    /\ memo' = memo \cup {Invocation("moov", 0, result')}
    /\ UNCHANGED <<tracks, creationTime>>

CallTrak ==
    \E i \in 1..Len(tracks) :
        /\ called' = "trak"
        /\ arg' = i
        /\ result' = trak(tracks[i], creationTime)
        /\ memo' = memo \cup {Invocation("trak", i, result')}
        /\ UNCHANGED <<tracks, creationTime>>

InitMoov ==
    /\ tracks \in SeqsUpTo(MovieSnapshots, MaxMovieTracks)
    /\ creationTime \in {0, 3600}
    /\ called = "none"
    /\ arg = 0
    /\ result = Falsy
    /\ memo = {}

NextMoov == CallMoov \/ CallTrak

SpecMoov == InitMoov /\ [][NextMoov]_vars

====
